---- MODULE Spec2Model ----
(***************************************************************************)
(* Music rehearsal scheduler: the REST handlers of backend/src/routes      *)
(* (auth, band, rehearsal) over the Prisma store of prisma/schema.prisma.  *)
(*                                                                         *)
(* The repository holds two implementations of the rehearsal routes and    *)
(* of the authenticate middleware:                                         *)
(*   variant "A"  routes/rehearsal.routes.ts, middlewares/auth.ts          *)
(*   variant "B"  unnamed/part_002,           server.ts lines 52-117       *)
(* A deployment mounts one rehearsal router; `variant` is fixed by Init.   *)
(*                                                                         *)
(* Every action is one request (or, for the two handlers whose lookup and  *)
(* insert are separate awaited statements that can interleave with another *)
(* request, one half of a request).  `resp` is the response the last step  *)
(* sent, NoResp when the step sent none.                                   *)
(***************************************************************************)
EXTENDS Integers, FiniteSets, Sequences, Bags, TLC

VARIABLES
    variant,        \* which rehearsal router is mounted: "A" | "B"
    users,          \* User rows
    bands,          \* Band rows
    bandMembers,    \* BandMember rows
    rehearsals,     \* Rehearsal rows
    attendances,    \* RehearsalAttendance rows
    notifications,  \* Notification rows (a bag: rows differ only by uuid)
    pending,        \* requests between their lookup and their insert (a bag)
    resp            \* response sent by the last step

vars == <<variant, users, bands, bandMembers, rehearsals, attendances,
          notifications, pending, resp>>

store == <<users, bands, bandMembers, rehearsals, attendances, notifications>>

----------------------------------------------------------------------------
(* Bounds *)

MaxUsers == 2
MaxBands == 2
MaxRehearsals == 2
MaxNotifications == 2
MaxPending == 2
MaxTime == 2
MaxAnsweredRehearsals == 1

Emails == {"a@x", "b@x"}
Passwords == {"p", "q"}
RegisterPasswords == {"p"}

UserIds == 1..MaxUsers
BandIds == 1..MaxBands
RehearsalIds == 1..MaxRehearsals
Times == 1..MaxTime

NoId == 0
Variants == {"A", "B"}

NoResp == [op |-> "none"]

----------------------------------------------------------------------------
(* Deployment configuration *)

\* docker-compose gives JWT_SECRET a default, so process.env.JWT_SECRET is
\* always a non-empty string in the deployment the repository describes.
JwtSecretDefined == TRUE

----------------------------------------------------------------------------
(* Error handling *)

\* An error object: its name, whether it is an instance of
\* PrismaClientKnownRequestError, its code, its statusCode (0: none) and its
\* message.
PrismaError(code) == [name |-> "PrismaClientKnownRequestError", prisma |-> TRUE,
                      code |-> code, statusCode |-> 0,
                      message |-> "Invalid prisma invocation"]
PlainError == [name |-> "Error", prisma |-> FALSE, code |-> "", statusCode |-> 0,
               message |-> "JWT_SECRET is not defined"]

\* errorHandler answering every error with the generic 500.
errorHandler_Generic(err) ==
    [status |-> 500, success |-> FALSE,
     message |-> "Internal server error", error |-> "ServerError"]

\* errorHandler with the two Prisma codes exchanged.
errorHandler_CodesSwapped(err) ==
    IF err.prisma /\ err.code = "P2025"
    THEN [status |-> 409, success |-> FALSE,
          message |-> "A record with this data already exists", error |-> "Conflict"]
    ELSE IF err.prisma /\ err.code = "P2002"
    THEN [status |-> 404, success |-> FALSE,
          message |-> "Record not found", error |-> "Not Found"]
    ELSE IF err.name \in {"JsonWebTokenError", "TokenExpiredError"}
    THEN [status |-> 401, success |-> FALSE,
          message |-> "Invalid token", error |-> "Unauthorized"]
    ELSE IF err.statusCode # 0
    THEN [status |-> err.statusCode, success |-> FALSE,
          message |-> err.message, error |-> err.name]
    ELSE [status |-> 500, success |-> FALSE,
          message |-> "Internal server error", error |-> "ServerError"]

\* middlewares/errorHandler.ts: the body sent for an error passed to next().
errorHandler(err) ==
    IF err.prisma /\ err.code = "P2002"
    THEN [status |-> 409, success |-> FALSE,
          message |-> "A record with this data already exists", error |-> "Conflict"]
    ELSE IF err.prisma /\ err.code = "P2025"
    THEN [status |-> 404, success |-> FALSE,
          message |-> "Record not found", error |-> "Not Found"]
    ELSE IF err.name = "JsonWebTokenError"
    THEN [status |-> 401, success |-> FALSE,
          message |-> "Invalid token", error |-> "Unauthorized"]
    ELSE IF err.name = "TokenExpiredError"
    THEN [status |-> 401, success |-> FALSE,
          message |-> "Token expired", error |-> "Unauthorized"]
    ELSE IF err.statusCode # 0
    THEN [status |-> err.statusCode, success |-> FALSE,
          message |-> err.message, error |-> err.name]
    ELSE [status |-> 500, success |-> FALSE,
          message |-> "Internal server error", error |-> "ServerError"]

\* The validate middleware (middlewares/validate, imported at
\* rehearsal.routes.ts 5) answers a request that fails its validators.
ValidationFailure ==
    [status |-> 400, success |-> FALSE, message |-> "Validation error",
     error |-> "Bad Request", data |-> << >>]

----------------------------------------------------------------------------
(* Store helpers *)

\* @default(uuid()) of User, Band, Rehearsal: a fresh id; rows are never
\* deleted, so the row count + 1.
NewId(table) == Cardinality(table) + 1

\* @default(uuid()) of a join row (BandMember, RehearsalAttendance): fresh
\* among the rows of the same pair, and tagged with the pair.
NewJoinId(table, a, b) ==
    <<a, b, Cardinality({x \in table : x.id[1] = a /\ x.id[2] = b}) + 1>>

UserByEmail(email) == {u \in users : u.email = email}
UserById(id) == {u \in users : u.id = id}

\* User.email without @unique.
UserEmailUnique_Off(email) == TRUE

\* User.email @unique
UserEmailUnique(email) == UserByEmail(email) = {}

\* bcrypt.hash(password, salt): the digest depends on the password and is
\* not the password.
Hash(password) == <<"bcrypt", password>>
\* bcrypt.compare(password, hash)
Compare(password, hash) == hash = <<"bcrypt", password>>

\* jwt.sign({id, email}, JWT_SECRET, {expiresIn: '1d'})
Sign(u) == [id |-> u.id, email |-> u.email, sigValid |-> TRUE, expired |-> FALSE]

PendingOf(op) == {r \in BagToSet(pending) : r.op = op}

----------------------------------------------------------------------------
(* POST /api/auth/register *)

\* auth.routes.ts 61-72: the existing-user lookup.
RegisterCheck(email, password) ==
    /\ email \in Emails /\ password \in RegisterPasswords
    /\ IF UserByEmail(email) # {}
       THEN /\ resp' = [op |-> "register", email |-> email, phase |-> "check",
                        status |-> 409, success |-> FALSE,
                        message |-> "User with this email already exists",
                        error |-> "Conflict", created |-> NoId]
            /\ UNCHANGED pending
       ELSE /\ BagCardinality(pending) < MaxPending
            /\ pending' = pending (+)
                 SetToBag({[op |-> "register", email |-> email,
                            password |-> password, caller |-> NoId,
                            bandId |-> NoId, userId |-> NoId, role |-> ""]})
            /\ resp' = NoResp
    /\ UNCHANGED <<variant, store>>

\* auth.routes.ts 74-116: hash, insert, sign, respond.
RegisterInsert(r) ==
    /\ r \in PendingOf("register")
    /\ pending' = pending (-) SetToBag({r})
    /\ IF ~UserEmailUnique(r.email)
       THEN LET e == errorHandler(PrismaError("P2002"))
            IN  /\ resp' = [op |-> "register", email |-> r.email, phase |-> "insert",
                            status |-> e.status, success |-> e.success,
                            message |-> e.message, error |-> e.error,
                            created |-> NoId]
                /\ UNCHANGED users
       ELSE LET user == [id |-> NewId(users), email |-> r.email,
                         passwordHash |-> Hash(r.password)]
            IN  /\ Cardinality(users) < MaxUsers
                /\ users' = users \cup {user}
                /\ IF ~JwtSecretDefined
                   THEN LET e == errorHandler(PlainError)
                        IN resp' = [op |-> "register", email |-> r.email,
                                    phase |-> "insert",
                                    status |-> e.status, success |-> e.success,
                                    message |-> e.message, error |-> e.error,
                                    created |-> user.id]
                   ELSE resp' = [op |-> "register", email |-> r.email,
                                 phase |-> "insert",
                                 status |-> 201, success |-> TRUE,
                                 message |-> "User registered successfully",
                                 error |-> "", created |-> user.id,
                                 token |-> Sign(user)]
    /\ UNCHANGED <<variant, bands, bandMembers, rehearsals, attendances, notifications>>

\* auth.routes.ts 57-117 served without another request in between.
Register(email, password) ==
    /\ email \in Emails /\ password \in RegisterPasswords
    /\ IF UserByEmail(email) # {}
       THEN /\ resp' = [op |-> "register", email |-> email, phase |-> "check",
                        status |-> 409, success |-> FALSE,
                        message |-> "User with this email already exists",
                        error |-> "Conflict", created |-> NoId]
            /\ UNCHANGED users
       ELSE LET user == [id |-> NewId(users), email |-> email,
                         passwordHash |-> Hash(password)]
            IN  /\ Cardinality(users) < MaxUsers
                /\ users' = users \cup {user}
                /\ resp' = IF ~JwtSecretDefined
                           THEN [op |-> "register", email |-> email,
                                 phase |-> "insert", created |-> user.id]
                                @@ errorHandler(PlainError)
                           ELSE [op |-> "register", email |-> email,
                                 phase |-> "insert",
                                 status |-> 201, success |-> TRUE,
                                 message |-> "User registered successfully",
                                 error |-> "", created |-> user.id,
                                 token |-> Sign(user)]
    /\ UNCHANGED <<variant, bands, bandMembers, rehearsals, attendances,
                   notifications, pending>>

----------------------------------------------------------------------------
(* POST /api/auth/login *)

\* LoginResponse telling an unknown email from a wrong password.
LoginResponse_UserNotFound(email, password) ==
    LET found == UserByEmail(email) IN
    IF found = {}
    THEN [status |-> 404, success |-> FALSE,
          message |-> "User not found", error |-> "Not Found"]
    ELSE LET user == CHOOSE u \in found : TRUE IN
         IF ~Compare(password, user.passwordHash)
         THEN [status |-> 401, success |-> FALSE,
               message |-> "Invalid credentials", error |-> "Unauthorized"]
         ELSE [status |-> 200, success |-> TRUE,
               message |-> "Login successful", error |-> "",
               userId |-> user.id, token |-> Sign(user)]

\* auth.routes.ts 156-211: the response to login(email, password) in the
\* current store.
LoginResponse(email, password) ==
    LET found == UserByEmail(email) IN
    IF found = {}
    THEN [status |-> 401, success |-> FALSE,
          message |-> "Invalid credentials", error |-> "Unauthorized"]
    ELSE LET user == CHOOSE u \in found : TRUE IN
         IF ~Compare(password, user.passwordHash)
         THEN [status |-> 401, success |-> FALSE,
               message |-> "Invalid credentials", error |-> "Unauthorized"]
         ELSE IF ~JwtSecretDefined
         THEN errorHandler(PlainError)
         ELSE [status |-> 200, success |-> TRUE,
               message |-> "Login successful", error |-> "",
               userId |-> user.id, token |-> Sign(user)]

Login(email, password) ==
    /\ email \in Emails /\ password \in Passwords
    /\ resp' = [op |-> "login", email |-> email, password |-> password,
                body |-> LoginResponse(email, password)]
    /\ UNCHANGED <<variant, store, pending>>

----------------------------------------------------------------------------
(* authenticate middleware *)

\* What the Authorization header carries.
Headers == {"none", "basic", "bearer"}
Tokens == [id : 1..(MaxUsers + 1), sigValid : BOOLEAN, expired : BOOLEAN]

\* middlewares/auth.ts 20-71 (variant "A"): every throw inside the try is
\* answered 401 'Invalid token'.
AuthenticateA(header, token) ==
    IF header # "bearer"
    THEN [status |-> 401, message |-> "No token provided",
          error |-> "Unauthorized", next |-> FALSE, reqUser |-> NoId]
    ELSE IF ~token.sigValid \/ token.expired
    THEN [status |-> 401, message |-> "Invalid token",
          error |-> "Unauthorized", next |-> FALSE, reqUser |-> NoId]
    ELSE IF UserById(token.id) = {}
    THEN [status |-> 401, message |-> "User not found",
          error |-> "Unauthorized", next |-> FALSE, reqUser |-> NoId]
    ELSE [status |-> 0, message |-> "", error |-> "", next |-> TRUE,
          reqUser |-> (CHOOSE u \in UserById(token.id) : TRUE).id]

\* AuthenticateB trusting the token's id without the user lookup.
AuthenticateB_NoUserLookup(header, token) ==
    IF header # "bearer"
    THEN [status |-> 401, message |-> "Authentication required. No token provided.",
          error |-> "Unauthorized", next |-> FALSE, reqUser |-> NoId]
    ELSE IF ~token.sigValid \/ token.expired
    THEN [status |-> 401, message |-> "Invalid token. Please log in again.",
          error |-> "Unauthorized", next |-> FALSE, reqUser |-> NoId]
    ELSE [status |-> 0, message |-> "", error |-> "", next |-> TRUE,
          reqUser |-> token.id]

\* server.ts 52-117 (variant "B"): a missing JWT_SECRET is passed to the
\* error handler; jwt errors are answered 401 (TokenExpiredError is a
\* JsonWebTokenError, so the first instanceof branch answers both).
AuthenticateB(header, token) ==
    IF header # "bearer"
    THEN [status |-> 401, message |-> "Authentication required. No token provided.",
          error |-> "Unauthorized", next |-> FALSE, reqUser |-> NoId]
    ELSE IF ~JwtSecretDefined
    THEN LET e == errorHandler(PlainError)
         IN [status |-> e.status, message |-> e.message, error |-> e.error,
             next |-> FALSE, reqUser |-> NoId]
    ELSE IF ~token.sigValid \/ token.expired
    THEN [status |-> 401, message |-> "Invalid token. Please log in again.",
          error |-> "Unauthorized", next |-> FALSE, reqUser |-> NoId]
    ELSE IF UserById(token.id) = {}
    THEN [status |-> 401,
          message |-> "The user associated with this token no longer exists.",
          error |-> "Unauthorized", next |-> FALSE, reqUser |-> NoId]
    ELSE [status |-> 0, message |-> "", error |-> "", next |-> TRUE,
          reqUser |-> token.id]

authenticate(v, header, token) ==
    /\ v \in Variants /\ header \in Headers /\ token \in Tokens
    /\ resp' = [op |-> "authenticate", mw |-> v, header |-> header, token |-> token,
                result |-> IF v = "A" THEN AuthenticateA(header, token)
                                      ELSE AuthenticateB(header, token)]
    /\ UNCHANGED <<variant, store, pending>>

----------------------------------------------------------------------------
(* Band routes: routes/band.routes.ts *)

Roles == {"LEADER", "MEMBER"}

MembershipsOf(bandId, userId) ==
    {m \in bandMembers : m.bandId = bandId /\ m.userId = userId}

\* BandMember without @@unique([bandId, userId]).
BandMemberUnique_Off(bandId, userId) == TRUE

\* BandMember @@unique([bandId, userId])
BandMemberUnique(bandId, userId) == MembershipsOf(bandId, userId) = {}

\* A bag of notification rows, one per membership row of `rows`; isRead is
\* the column default (schema.prisma 120).
NotificationBag(rows, type, relatedId) ==
    LET Row(m) == [userId |-> m.userId, type |-> type, relatedId |-> relatedId,
                   isRead |-> FALSE]
    IN  [n \in {Row(x) : x \in rows} |->
           Cardinality({x \in rows : Row(x) = n})]

\* CreateBand inserting the band without the nested membership.
CreateBand_NoMembership(caller) ==
    /\ UserById(caller) # {}
    /\ Cardinality(bands) < MaxBands
    /\ bands' = bands \cup {[id |-> NewId(bands)]}
    /\ resp' = [op |-> "createBand", caller |-> caller, status |-> 201,
                success |-> TRUE, message |-> "Band created successfully",
                error |-> "", data |-> [id |-> NewId(bands), members |-> {}]]
    /\ UNCHANGED <<variant, users, bandMembers, rehearsals, attendances,
                   notifications, pending>>

\* POST /api/bands, band.routes.ts 50-91: band and leader membership are one
\* nested create.
CreateBand(caller) ==
    /\ UserById(caller) # {}
    /\ Cardinality(bands) < MaxBands
    /\ LET band == [id |-> NewId(bands)]
           member == [id |-> NewJoinId(bandMembers, band.id, caller),
                      bandId |-> band.id,
                      userId |-> caller, role |-> "LEADER", status |-> "ACTIVE"]
       IN  /\ bands' = bands \cup {band}
           /\ bandMembers' = bandMembers \cup {member}
           /\ resp' = [op |-> "createBand", caller |-> caller, status |-> 201,
                       success |-> TRUE, message |-> "Band created successfully",
                       error |-> "", data |-> [id |-> band.id, members |-> {member}]]
    /\ UNCHANGED <<variant, users, rehearsals, attendances, notifications, pending>>

\* band.routes.ts 212-215
IsMember(members, caller) ==
    \E member \in members : member.userId = caller /\ member.status = "ACTIVE"

\* GET /api/bands/:id, band.routes.ts 170-232
GetBandResponse(caller, id) ==
    LET band == {b \in bands : b.id = id}
        members == {m \in bandMembers : m.bandId = id}
    IN  IF band = {}
        THEN [status |-> 404, success |-> FALSE, message |-> "Band not found",
              error |-> "Not Found", data |-> [id |-> NoId, members |-> {}]]
        ELSE IF ~IsMember(members, caller)
        THEN [status |-> 403, success |-> FALSE,
              message |-> "You are not a member of this band",
              error |-> "Forbidden", data |-> [id |-> NoId, members |-> {}]]
        ELSE [status |-> 200, success |-> TRUE, message |-> "", error |-> "",
              data |-> [id |-> id, members |-> members]]

GetBand(caller, id) ==
    /\ UserById(caller) # {}
    /\ id \in BandIds
    /\ resp' = [op |-> "getBand", caller |-> caller, id |-> id,
                body |-> GetBandResponse(caller, id)]
    /\ UNCHANGED <<variant, store, pending>>

\* LeaderMembership without the role filter.
LeaderMembership_AnyRole(caller, id) ==
    {m \in bandMembers : m.bandId = id /\ m.userId = caller /\ m.status = "ACTIVE"}

\* band.routes.ts 289-297: the caller's ACTIVE LEADER membership.
LeaderMembership(caller, id) ==
    {m \in MembershipsOf(id, caller) : m.role = "LEADER" /\ m.status = "ACTIVE"}

\* InviteLookup reactivating whatever membership it finds.
InviteLookup_ReactivateAny(caller, id, email) ==
    IF LeaderMembership(caller, id) = {}
    THEN [status |-> 403, message |-> "Only band leaders can add members",
          error |-> "Forbidden", userId |-> NoId, existing |-> {}]
    ELSE IF UserByEmail(email) = {}
    THEN [status |-> 404, message |-> "User not found",
          error |-> "Not Found", userId |-> NoId, existing |-> {}]
    ELSE LET user == CHOOSE u \in UserByEmail(email) : TRUE
             existing == MembershipsOf(id, user.id)
         IN  IF existing = {}
             THEN [status |-> 0, message |-> "", error |-> "",
                   userId |-> user.id, existing |-> {}]
             ELSE [status |-> 200,
                   message |-> "Member reactivated successfully",
                   error |-> "", userId |-> user.id,
                   existing |-> {CHOOSE m \in existing : TRUE}]

\* InviteLookup looking the target up before checking the caller.
InviteLookup_TargetFirst(caller, id, email) ==
    IF UserByEmail(email) = {}
    THEN [status |-> 404, message |-> "User not found",
          error |-> "Not Found", userId |-> NoId, existing |-> {}]
    ELSE IF LeaderMembership(caller, id) = {}
    THEN [status |-> 403, message |-> "Only band leaders can add members",
          error |-> "Forbidden", userId |-> NoId, existing |-> {}]
    ELSE [status |-> 409,
          message |-> "User is already a member of this band",
          error |-> "Conflict", userId |-> NoId, existing |-> {}]

\* POST /api/bands/:id/members, band.routes.ts 289-357: the leadership check,
\* the lookup of the target user and of an existing membership.  status 0:
\* no membership found, the handler goes on to insert; 200: an INACTIVE
\* membership to reactivate; else the refusal.
InviteLookup(caller, id, email) ==
    IF LeaderMembership(caller, id) = {}
    THEN [status |-> 403, message |-> "Only band leaders can add members",
          error |-> "Forbidden", userId |-> NoId, existing |-> {}]
    ELSE IF UserByEmail(email) = {}
    THEN [status |-> 404, message |-> "User not found",
          error |-> "Not Found", userId |-> NoId, existing |-> {}]
    ELSE LET user == CHOOSE u \in UserByEmail(email) : TRUE
             existing == MembershipsOf(id, user.id)
         IN  IF existing = {}
             THEN [status |-> 0, message |-> "", error |-> "",
                   userId |-> user.id, existing |-> {}]
             ELSE LET existingMembership == CHOOSE m \in existing : TRUE IN
                  IF existingMembership.status = "INACTIVE"
                  THEN [status |-> 200,
                        message |-> "Member reactivated successfully",
                        error |-> "", userId |-> user.id,
                        existing |-> {existingMembership}]
                  ELSE [status |-> 409,
                        message |-> "User is already a member of this band",
                        error |-> "Conflict", userId |-> user.id,
                        existing |-> {existingMembership}]

\* Reactivate inserting the reactivated row beside the INACTIVE one.
Reactivate_Insert(existing, role) ==
    bandMembers \cup
        {[m EXCEPT !.status = "ACTIVE", !.role = role,
                   !.id = <<m.id[1], m.id[2], m.id[3] + 1>>] : m \in existing}

\* band.routes.ts 331-334: update({ data: { status: 'ACTIVE', role } })
Reactivate(existing, role) ==
    (bandMembers \ existing) \cup
        {[m EXCEPT !.status = "ACTIVE", !.role = role] : m \in existing}

\* The part of the handler that answers without inserting (lookup outcome
\* l with l.status # 0).
InviteAnswer(l, caller, id, email, role) ==
    /\ bandMembers' = IF l.status = 200 THEN Reactivate(l.existing, role)
                                        ELSE bandMembers
    /\ resp' = [op |-> "invite", phase |-> "check", caller |-> caller,
                id |-> id, email |-> email, userId |-> l.userId,
                role |-> role, status |-> l.status,
                success |-> (l.status = 200), message |-> l.message,
                error |-> l.error]
    /\ UNCHANGED notifications

\* band.routes.ts 359-397: insert the membership (status ACTIVE), notify the
\* new member, respond 201.  A unique-constraint failure of the insert is
\* thrown to the error handler.
InviteCreate(caller, bandId, userId, role) ==
    IF ~BandMemberUnique(bandId, userId)
    THEN /\ resp' = [op |-> "invite", phase |-> "insert", caller |-> caller,
                     id |-> bandId, userId |-> userId, role |-> role]
                    @@ errorHandler(PrismaError("P2002"))
         /\ UNCHANGED <<bandMembers, notifications>>
    ELSE LET newMembership == [id |-> NewJoinId(bandMembers, bandId, userId),
                               bandId |-> bandId, userId |-> userId,
                               role |-> role, status |-> "ACTIVE"]
         IN  /\ BagCardinality(notifications) < MaxNotifications
             /\ bandMembers' = bandMembers \cup {newMembership}
             /\ notifications' = notifications (+)
                  SetToBag({[userId |-> userId, type |-> "BAND_INVITATION",
                             relatedId |-> bandId, isRead |-> FALSE]})
             /\ resp' = [op |-> "invite", phase |-> "insert", caller |-> caller,
                         id |-> bandId, userId |-> userId, role |-> role,
                         status |-> 201, success |-> TRUE,
                         message |-> "Member added successfully", error |-> ""]

\* The handler served without another request in between.
Invite(caller, id, email, role) ==
    /\ UserById(caller) # {}
    /\ id \in BandIds /\ email \in Emails /\ role \in Roles
    /\ LET l == InviteLookup(caller, id, email)
       IN  IF l.status # 0
           THEN InviteAnswer(l, caller, id, email, role)
           ELSE InviteCreate(caller, id, l.userId, role)
    /\ UNCHANGED <<variant, users, bands, rehearsals, attendances, pending>>

\* The handler up to the await of its insert: another request can run
\* between the lookup of the existing membership and the insert.
InviteCheck(caller, id, email, role) ==
    /\ UserById(caller) # {}
    /\ id \in BandIds /\ email \in Emails /\ role \in Roles
    /\ LET l == InviteLookup(caller, id, email)
       IN  IF l.status # 0
           THEN /\ InviteAnswer(l, caller, id, email, role)
                /\ UNCHANGED pending
           ELSE /\ BagCardinality(pending) < MaxPending
                /\ pending' = pending (+)
                     SetToBag({[op |-> "invite", email |-> "", password |-> "",
                                caller |-> caller, bandId |-> id,
                                userId |-> l.userId, role |-> role]})
                /\ resp' = NoResp
                /\ UNCHANGED <<bandMembers, notifications>>
    /\ UNCHANGED <<variant, users, bands, rehearsals, attendances>>

InviteInsert(r) ==
    /\ r \in PendingOf("invite")
    /\ pending' = pending (-) SetToBag({r})
    /\ InviteCreate(r.caller, r.bandId, r.userId, r.role)
    /\ UNCHANGED <<variant, users, bands, rehearsals, attendances>>

----------------------------------------------------------------------------
(* Rehearsal routes: routes/rehearsal.routes.ts ("A"), unnamed/part_002 ("B") *)

\* schema.prisma 89 / the validators of PUT and POST /:id/attendance
AttendanceStatusesA == {"ATTENDING", "NOT_ATTENDING", "MAYBE", "PENDING"}
AttendanceStatusesB == {"CONFIRMED", "MAYBE", "DECLINED"}

\* The status a request body can carry: any string.
AttendanceInputs == AttendanceStatusesA \cup AttendanceStatusesB \cup {"LATE"}

\* ValidStatus accepting every status.
ValidStatus_Any(v, status) == TRUE

\* body('status').isIn([...]): rehearsal.routes.ts 431-433, part_002 443.
ValidStatus(v, status) ==
    status \in (IF v = "A" THEN AttendanceStatusesA ELSE AttendanceStatusesB)

\* Variant "B" inserts attendance rows without a status, so the column
\* default decides; the schema of that variant is not among the sources.
DefaultAttendanceStatus == "PENDING"

\* ActiveMembers without the bandId filter.
ActiveMembers_AllBands(bandId) ==
    {m \in bandMembers : m.status = "ACTIVE"}

\* findMany({ where: { bandId, status: 'ACTIVE' } }): membership rows.
ActiveMembers(bandId) ==
    {m \in bandMembers : m.bandId = bandId /\ m.status = "ACTIVE"}

\* The caller's membership that authorises creating a rehearsal:
\* "A" rehearsal.routes.ts 86-92 (any role, ACTIVE),
\* "B" part_002 97-103 (LEADER, any status).
CreatorMembership(v, caller, bandId) ==
    IF v = "A"
    THEN {m \in MembershipsOf(bandId, caller) : m.status = "ACTIVE"}
    ELSE {m \in MembershipsOf(bandId, caller) : m.role = "LEADER"}

\* InvalidTimes with > for >=.
InvalidTimes_Strict(startDatetime, endDatetime) == startDatetime > endDatetime

\* new Date(startDatetime) >= new Date(endDatetime)
InvalidTimes(startDatetime, endDatetime) == startDatetime >= endDatetime

\* CreateRehearsalRefusal without the check of the times.
CreateRehearsalRefusal_NoTimes(v, caller, bandId, startDatetime, endDatetime) ==
    IF {m \in bandMembers : m.bandId = bandId /\ m.userId = caller
                            /\ (IF v = "A" THEN m.status = "ACTIVE"
                                            ELSE m.role = "LEADER")} = {}
    THEN 403 ELSE 0

\* CreateRehearsalRefusal refusing a range that overlaps a rehearsal of the
\* band.
CreateRehearsalRefusal_Overlap(v, caller, bandId, startDatetime, endDatetime) ==
    IF \E r \in rehearsals : /\ r.bandId = bandId
                              /\ r.startDatetime < endDatetime
                              /\ startDatetime < r.endDatetime
    THEN 400
    ELSE IF {m \in bandMembers : m.bandId = bandId /\ m.userId = caller
                                 /\ (IF v = "A" THEN m.status = "ACTIVE"
                                                 ELSE m.role = "LEADER")} = {}
    THEN 403
    ELSE IF startDatetime >= endDatetime THEN 400
    ELSE 0

\* The checks both variants run before inserting, in the variant's order:
\* 0 when the request passes, else the status of the refusal.
CreateRehearsalRefusal(v, caller, bandId, startDatetime, endDatetime) ==
    IF v = "A"
    THEN IF CreatorMembership(v, caller, bandId) = {} THEN 403
         ELSE IF InvalidTimes(startDatetime, endDatetime) THEN 400
         ELSE 0
    ELSE IF InvalidTimes(startDatetime, endDatetime) THEN 400
         ELSE IF CreatorMembership(v, caller, bandId) = {} THEN 403
         ELSE 0

\* NewAttendances giving a row to every registered user.
NewAttendances_AllUsers(rehearsalId, members, status) ==
    {[id |-> <<rehearsalId, u.id, 1>>,
      rehearsalId |-> rehearsalId, userId |-> u.id, status |-> status]
     : u \in users}

\* The attendance rows createMany is handed: one per membership row found.
NewAttendances(rehearsalId, members, status) ==
    {[id |-> <<rehearsalId, m.userId, m.id[3]>>,
      rehearsalId |-> rehearsalId, userId |-> m.userId, status |-> status]
     : m \in members}

\* RehearsalAttendance @@unique([rehearsalId, userId]) over a createMany.
AttendanceUnique(rows) ==
    /\ \A a \in rows, b \in rows :
         (a.rehearsalId = b.rehearsalId /\ a.userId = b.userId) => a = b
    /\ \A a \in rows, b \in attendances :
         ~(a.rehearsalId = b.rehearsalId /\ a.userId = b.userId)

\* NotifiedMembers without the filter on the creator.
NotifiedMembers_WithCreator(members, caller) == members

\* rehearsal.routes.ts 147-148, part_002 145-146: the members told of a new
\* rehearsal, the creator left out.
NotifiedMembers(members, caller) == {m \in members : m.userId # caller}

\* POST /api/rehearsals: rehearsal.routes.ts 72-165, part_002 74-186.
CreateRehearsal(caller, bandId, startDatetime, endDatetime) ==
    /\ UserById(caller) # {}
    /\ bandId \in BandIds /\ startDatetime \in Times /\ endDatetime \in Times
    /\ LET refusal == CreateRehearsalRefusal(variant, caller, bandId,
                                             startDatetime, endDatetime)
           req == [op |-> "createRehearsal", caller |-> caller, bandId |-> bandId,
                   startDatetime |-> startDatetime, endDatetime |-> endDatetime]
       IN
       IF refusal = 403
       THEN /\ resp' = req @@ [status |-> 403, success |-> FALSE,
                               message |-> IF variant = "A"
                                 THEN "You must be a band member to create rehearsals"
                                 ELSE "You must be a band leader to create rehearsals",
                               error |-> "Forbidden", rehearsalId |-> NoId]
            /\ UNCHANGED <<rehearsals, attendances, notifications>>
       ELSE IF refusal = 400
       THEN /\ resp' = req @@ [status |-> 400, success |-> FALSE,
                               message |-> IF variant = "A"
                                 THEN "End time must be after start time"
                                 ELSE "Start time must be before end time",
                               error |-> "Bad Request", rehearsalId |-> NoId]
            /\ UNCHANGED <<rehearsals, attendances, notifications>>
       ELSE LET rehearsal == [id |-> NewId(rehearsals), bandId |-> bandId,
                              startDatetime |-> startDatetime,
                              endDatetime |-> endDatetime,
                              createdById |-> caller]
                members == ActiveMembers(bandId)
                rows == NewAttendances(rehearsal.id, members,
                          IF variant = "A" THEN "PENDING"
                                           ELSE DefaultAttendanceStatus)
                notify == NotifiedMembers(members, caller)
            IN  /\ Cardinality(rehearsals) < MaxRehearsals
                /\ rehearsals' = rehearsals \cup {rehearsal}
                /\ IF ~AttendanceUnique(rows)
                   THEN LET e == errorHandler(PrismaError("P2002"))
                        IN  /\ resp' = req @@ [status |-> e.status,
                                               success |-> e.success,
                                               message |-> e.message,
                                               error |-> e.error,
                                               rehearsalId |-> NoId]
                            /\ UNCHANGED <<attendances, notifications>>
                   ELSE /\ BagCardinality(notifications) + Cardinality(notify)
                             <= MaxNotifications
                        /\ attendances' = attendances \cup rows
                        /\ notifications' = notifications (+)
                                              NotificationBag(notify, "NEW_REHEARSAL",
                                                              rehearsal.id)
                        /\ resp' = req @@ [status |-> 201, success |-> TRUE,
                                           message |-> "Rehearsal created successfully",
                                           error |-> "",
                                           rehearsalId |-> rehearsal.id]
    /\ UNCHANGED <<variant, users, bands, bandMembers, pending>>

\* The band filter of GET /api/rehearsals:
\* "A" rehearsal.routes.ts 221-240, 257-260: the caller's ACTIVE bands,
\*     narrowed to bandId when given;
\* "B" part_002 235-255: bandId itself when given, else the caller's bands.
ListedBands(v, caller, bandId) ==
    LET userBands == {m.bandId : m \in {k \in bandMembers :
                         /\ k.userId = caller /\ k.status = "ACTIVE"
                         /\ (v = "A" /\ bandId # NoId => k.bandId = bandId)}}
    IN  IF userBands = {} THEN {}
        ELSE IF v = "B" /\ bandId # NoId THEN {bandId}
        ELSE userBands

\* GET /api/rehearsals (no date filter in the query)
ListRehearsals(caller, bandId) ==
    /\ UserById(caller) # {}
    /\ bandId \in BandIds \cup {NoId}
    /\ resp' = [op |-> "listRehearsals", caller |-> caller, bandId |-> bandId,
                status |-> 200, success |-> TRUE,
                data |-> {r \in rehearsals :
                            r.bandId \in ListedBands(variant, caller, bandId)}]
    /\ UNCHANGED <<variant, store, pending>>

\* ReaderMembership without the userId filter.
ReaderMembership_AnyUser(v, caller, bandId) ==
    {m \in bandMembers : m.bandId = bandId /\ (v = "A" => m.status = "ACTIVE")}

\* The membership rows that let the caller read a rehearsal of bandId:
\* "A" rehearsal.routes.ts 337-342, 370 (ACTIVE), "B" part_002 375-380 (any).
ReaderMembership(v, caller, bandId) ==
    IF v = "A"
    THEN {m \in MembershipsOf(bandId, caller) : m.status = "ACTIVE"}
    ELSE MembershipsOf(bandId, caller)

\* GET /api/rehearsals/:id: rehearsal.routes.ts 327-385, part_002 333-397.
GetRehearsalResponse(v, caller, id) ==
    LET found == {r \in rehearsals : r.id = id} IN
    IF found = {}
    THEN [status |-> 404, success |-> FALSE, message |-> "Rehearsal not found",
          error |-> "Not Found", data |-> {}]
    ELSE LET rehearsal == CHOOSE r \in found : TRUE IN
         IF ReaderMembership(v, caller, rehearsal.bandId) = {}
         THEN [status |-> 403, success |-> FALSE,
               message |-> IF v = "A"
                  THEN "You are not authorized to view this rehearsal"
                  ELSE "You are not authorized to access this rehearsal",
               error |-> "Forbidden", data |-> {}]
         ELSE [status |-> 200, success |-> TRUE, message |-> "", error |-> "",
               data |-> {rehearsal}]

GetRehearsal(caller, id) ==
    /\ UserById(caller) # {}
    /\ id \in RehearsalIds
    /\ resp' = [op |-> "getRehearsal", caller |-> caller, id |-> id,
                body |-> GetRehearsalResponse(variant, caller, id)]
    /\ UNCHANGED <<variant, store, pending>>

\* UpdateAttendanceRow writing the status to every row of the rehearsal.
UpdateAttendanceRow_WholeRehearsal(id, status) ==
    {IF a.rehearsalId = id[1] THEN [a EXCEPT !.status = status] ELSE a :
       a \in attendances}

\* UpdateAttendanceRow writing a new row beside the one it should replace.
UpdateAttendanceRow_Insert(id, status) ==
    attendances \cup
      {[a EXCEPT !.status = status, !.id = <<a.id[1], a.id[2], a.id[3] + 1>>]
       : a \in {x \in attendances : x.id = id}}

\* prisma.rehearsalAttendance.update({ where: { id }, data: { status } })
UpdateAttendanceRow(id, status) ==
    {IF a.id = id THEN [a EXCEPT !.status = status] ELSE a : a \in attendances}

\* CallerAttendance without the userId filter.
CallerAttendance_AnyUser(id, caller) ==
    {a \in attendances : a.rehearsalId = id}

\* rehearsal.routes.ts 443-447 (findFirst), part_002 453-460 (findUnique):
\* the caller's attendance row for the rehearsal.
CallerAttendance(id, caller) ==
    {a \in attendances : a.rehearsalId = id /\ a.userId = caller}

\* The sets of leaders that can be told of a non-attendance:
\* "A" rehearsal.routes.ts 479-501: findFirst returns one ACTIVE LEADER row
\*     of the band, any of them (the query has no orderBy); it is told
\*     unless it is the caller's;
\* "B" part_002 491-520: every LEADER row of the band but the caller's.
NotifiedLeaders(v, caller, bandId) ==
    IF v = "A"
    THEN LET leaders == {m \in ActiveMembers(bandId) : m.role = "LEADER"}
         IN  IF leaders = {} THEN {{}}
             ELSE {{m \in {bandLeader} : m.userId # caller} :
                     bandLeader \in leaders}
    ELSE {{m \in bandMembers :
             m.bandId = bandId /\ m.role = "LEADER" /\ m.userId # caller}}

\* PUT /api/rehearsals/:id/attendance ("A", rehearsal.routes.ts 437-512),
\* POST /api/rehearsals/:id/attendance ("B", part_002 447-531).
UpdateAttendance(caller, id, status) ==
    /\ UserById(caller) # {}
    /\ id \in RehearsalIds
    /\ status \in AttendanceInputs
    /\ LET found == CallerAttendance(id, caller)
           req == [op |-> "updateAttendance", caller |-> caller, id |-> id,
                   newStatus |-> status]
       IN
       IF ~ValidStatus(variant, status)
       THEN /\ resp' = req @@ [status |-> ValidationFailure.status,
                               success |-> ValidationFailure.success,
                               message |-> ValidationFailure.message,
                               error |-> ValidationFailure.error]
            /\ UNCHANGED <<attendances, notifications>>
       ELSE IF found = {}
       THEN /\ resp' = req @@ [status |-> 404, success |-> FALSE,
                               message |-> "Attendance record not found",
                               error |-> "Not Found"]
            /\ UNCHANGED <<attendances, notifications>>
       ELSE \E attendance \in found :
            LET rehearsal == CHOOSE r \in rehearsals : r.id = id
                declined == status = (IF variant = "A" THEN "NOT_ATTENDING"
                                                       ELSE "DECLINED")
            IN  /\ attendances' = UpdateAttendanceRow(attendance.id, status)
                /\ resp' = req @@ [status |-> 200, success |-> TRUE,
                                   message |-> "Attendance updated successfully",
                                   error |-> ""]
                /\ IF ~declined
                   THEN UNCHANGED notifications
                   ELSE \E to \in NotifiedLeaders(variant, caller,
                                                   rehearsal.bandId) :
                        /\ BagCardinality(notifications) + Cardinality(to)
                             <= MaxNotifications
                        /\ notifications' = notifications (+)
                             NotificationBag(to, "ATTENDANCE_UPDATE", id)
    /\ UNCHANGED <<variant, users, bands, bandMembers, rehearsals, pending>>

----------------------------------------------------------------------------
(* Routing of GET /api/rehearsals/suggested-times, and the health check *)

\* The routes of the rehearsal router in the order of their registration:
\* "A" rehearsal.routes.ts 59, 205, 320, 426, 539; "B" part_002 61, 221,
\* 326, 438.  A path is the sequence of its segments, ":id" a parameter.
RehearsalRoutes(v) ==
    IF v = "A"
    THEN << [method |-> "POST", path |-> << >>],
            [method |-> "GET",  path |-> << >>],
            [method |-> "GET",  path |-> <<":id">>],
            [method |-> "PUT",  path |-> <<":id", "attendance">>],
            [method |-> "GET",  path |-> <<"suggested-times">>] >>
    ELSE << [method |-> "POST", path |-> << >>],
            [method |-> "GET",  path |-> << >>],
            [method |-> "GET",  path |-> <<":id">>],
            [method |-> "POST", path |-> <<":id", "attendance">>] >>

\* Express path matching: a parameter segment matches any segment.
Matches(route, method, path) ==
    /\ route.method = method
    /\ Len(route.path) = Len(path)
    /\ \A i \in 1..Len(path) : route.path[i] = ":id" \/ route.path[i] = path[i]

\* The router hands the request to the first registered route that matches
\* (<< >> when none does and the request path is not empty).
Dispatch(v, method, path) ==
    LET routes == RehearsalRoutes(v)
        hits == {i \in 1..Len(routes) : Matches(routes[i], method, path)}
    IN  IF hits = {} THEN << >>
        ELSE routes[CHOOSE i \in hits : \A j \in hits : i <= j].path

\* isUUID() of express-validator on a path segment: ids are the segments
\* "1", "2", ...; a word is not a UUID.
IsUUID(segment) == segment \in {ToString(i) : i \in RehearsalIds}

\* now.getDay()
Weekdays == 0..6

\* rehearsal.routes.ts 573-626: next Saturday 19-22, next Sunday 14-17, next
\* Tuesday 18-21, as days from now (now.getDate() + offset); confidence in
\* tenths.
SuggestedTimes(now) ==
    << [day |-> (6 - now + 7) % 7, startHour |-> 19, endHour |-> 22,
        confidence |-> 9, message |-> "All members are typically available"],
       [day |-> (0 - now + 7) % 7, startHour |-> 14, endHour |-> 17,
        confidence |-> 8, message |-> "Most members are typically available"],
       [day |-> (2 - now + 7) % 7, startHour |-> 18, endHour |-> 21,
        confidence |-> 7, message |-> "Some members might have conflicts"] >>

\* The handler of GET /suggested-times, rehearsal.routes.ts 546-632.
SuggestedTimesResponse(caller, bandId, now) ==
    IF {m \in MembershipsOf(bandId, caller) : m.status = "ACTIVE"} = {}
    THEN [status |-> 403, success |-> FALSE,
          message |-> "You must be a band member to get suggested times",
          error |-> "Forbidden", data |-> << >>]
    ELSE [status |-> 200, success |-> TRUE, message |-> "", error |-> "",
          data |-> SuggestedTimes(now)]

\* GET /api/rehearsals/suggested-times?bandId=... by an authenticated
\* caller: the request goes to the first matching route of the mounted
\* router, whose validators run before its handler.
SuggestedTimesRequest(caller, bandId, now) ==
    /\ UserById(caller) # {}
    /\ bandId \in BandIds /\ now \in Weekdays
    /\ LET path == <<"suggested-times">>
           route == Dispatch(variant, "GET", path)
       IN  resp' = [op |-> "suggestedTimes", caller |-> caller,
                    bandId |-> bandId, now |-> now, route |-> route,
                    body |-> IF route = <<"suggested-times">>
                             THEN SuggestedTimesResponse(caller, bandId, now)
                             ELSE IF route = <<":id">> /\ ~IsUUID(path[1])
                             THEN ValidationFailure
                             ELSE [status |-> 404, success |-> FALSE,
                                   message |-> "Rehearsal not found",
                                   error |-> "Not Found", data |-> << >>]]
    /\ UNCHANGED <<variant, store, pending>>

\* GET /health, app.ts 83-85.
Health ==
    /\ resp' = [op |-> "health", status |-> 200,
                body |-> [status |-> "ok", message |-> "Server is running"]]
    /\ UNCHANGED <<variant, store, pending>>

\* The top-level keys of the JSON body a response carries: res.json of the
\* handler's outcome ({} when no body is sent).
BodyKeys(r) ==
    CASE r.op = "none" -> {}
      [] r.op = "health" -> DOMAIN r.body
      [] r.op = "authenticate" ->
           IF r.result.next THEN {} ELSE {"success", "message", "error"}
      [] r.op \in {"getBand", "getRehearsal", "suggestedTimes"} ->
           IF r.body.success THEN {"success", "data"}
                             ELSE {"success", "message", "error"}
      [] r.op = "login" ->
           IF r.body.success THEN {"success", "message", "data"}
                             ELSE {"success", "message", "error"}
      [] r.op = "listRehearsals" -> {"success", "data"}
      [] OTHER ->
           IF r.success THEN {"success", "message", "data"}
                        ELSE {"success", "message", "error"}

----------------------------------------------------------------------------
(* Errors and database failures *)

\* The errors that can reach the error handler: by name, by class (prisma:
\* instanceof PrismaClientKnownRequestError), code, statusCode and message.
ErrorNames == {"Error", "JsonWebTokenError", "TokenExpiredError",
               "PrismaClientKnownRequestError", "PrismaClientInitializationError"}
ErrorCodes == {"", "P2002", "P2025", "P2024"}
StatusCodes == {0, 400, 503}
Errors ==
    {e \in [name : ErrorNames, prisma : BOOLEAN, code : ErrorCodes,
            statusCode : StatusCodes, message : {"connection string of the db"}] :
       e.prisma <=> (e.name = "PrismaClientKnownRequestError")}

\* What a query throws when the database fails: the client cannot reach the
\* server, or the request times out in the connection pool (P2024).
DbFailures ==
    {e \in Errors :
       /\ e.statusCode = 0
       /\ \/ e.name = "PrismaClientInitializationError" /\ e.code = ""
          \/ e.prisma /\ e.code = "P2024"}

\* app.ts 89: an error passed to next() is answered by the error handler.
HandleError(err) ==
    /\ err \in Errors
    /\ resp' = [op |-> "error", err |-> err, body |-> errorHandler(err)]
    /\ UNCHANGED <<variant, store, pending>>

\* middlewares/auth.ts 20-71 when prisma.user.findUnique (43-51) throws err:
\* the catch of 64-70 answers every throw 401.  failed: the lookup was
\* reached.
AuthenticateAOnDbFailure(header, token, err) ==
    IF header # "bearer"
    THEN [status |-> 401, message |-> "No token provided",
          error |-> "Unauthorized", next |-> FALSE, failed |-> FALSE]
    ELSE IF ~token.sigValid \/ token.expired
    THEN [status |-> 401, message |-> "Invalid token",
          error |-> "Unauthorized", next |-> FALSE, failed |-> FALSE]
    ELSE [status |-> 401, message |-> "Invalid token",
          error |-> "Unauthorized", next |-> FALSE, failed |-> TRUE]

\* server.ts 52-117 when prisma.user.findUnique (79-81) throws err: the
\* catch of 98-116 answers jwt errors itself and passes the others on.
AuthenticateBOnDbFailure(header, token, err) ==
    IF header # "bearer"
    THEN [status |-> 401, message |-> "Authentication required. No token provided.",
          error |-> "Unauthorized", next |-> FALSE, failed |-> FALSE]
    ELSE IF ~JwtSecretDefined
    THEN LET e == errorHandler(PlainError)
         IN  [status |-> e.status, message |-> e.message, error |-> e.error,
              next |-> FALSE, failed |-> FALSE]
    ELSE IF ~token.sigValid \/ token.expired
    THEN [status |-> 401, message |-> "Invalid token. Please log in again.",
          error |-> "Unauthorized", next |-> FALSE, failed |-> FALSE]
    ELSE IF err.name \in {"JsonWebTokenError", "TokenExpiredError"}
    THEN [status |-> 401, message |-> "Invalid token. Please log in again.",
          error |-> "Unauthorized", next |-> FALSE, failed |-> TRUE]
    ELSE LET e == errorHandler(err)
         IN  [status |-> e.status, message |-> e.message, error |-> e.error,
              next |-> FALSE, failed |-> TRUE]

\* A request whose authentication meets a database failure.
authenticateOnDbFailure(v, header, token, err) ==
    /\ v \in Variants /\ header \in Headers /\ token \in Tokens
    /\ err \in DbFailures
    /\ resp' = [op |-> "authenticateFault", mw |-> v, header |-> header,
                token |-> token, fault |-> err,
                result |-> IF v = "A"
                           THEN AuthenticateAOnDbFailure(header, token, err)
                           ELSE AuthenticateBOnDbFailure(header, token, err)]
    /\ UNCHANGED <<variant, store, pending>>

\* POST /api/auth/login when prisma.user.findUnique (auth.routes.ts 161-163)
\* throws err: the catch of 208-210 passes it to the error handler.
LoginOnDbFailure(email, password, err) ==
    /\ email \in Emails /\ password \in Passwords /\ err \in DbFailures
    /\ resp' = [op |-> "loginFault", email |-> email, password |-> password,
                fault |-> err, body |-> errorHandler(err)]
    /\ UNCHANGED <<variant, store, pending>>

\* POST /api/rehearsals rolled back as one transaction when a query fails.
CreateRehearsalInterrupted_Atomic(caller, bandId, startDatetime, endDatetime, err) ==
    /\ UserById(caller) # {}
    /\ bandId \in BandIds /\ startDatetime \in Times /\ endDatetime \in Times
    /\ err \in DbFailures
    /\ CreateRehearsalRefusal(variant, caller, bandId, startDatetime, endDatetime) = 0
    /\ Cardinality(rehearsals) < MaxRehearsals
    /\ LET e == errorHandler(err)
       IN  resp' = [op |-> "createRehearsal", caller |-> caller, bandId |-> bandId,
                    startDatetime |-> startDatetime, endDatetime |-> endDatetime,
                    status |-> e.status, success |-> e.success,
                    message |-> e.message, error |-> e.error,
                    rehearsalId |-> NoId]
    /\ UNCHANGED <<variant, store, pending>>

\* POST /api/rehearsals when a query after prisma.rehearsal.create throws err
\* (the member findMany or the attendance createMany:
\* "A" rehearsal.routes.ts 126-143, "B" part_002 129-142): the rehearsal row
\* of 112-124 / 113-126 is committed, no query runs in a transaction, and the
\* catch (162-164 / 183-185) passes err to the error handler.
CreateRehearsalInterrupted(caller, bandId, startDatetime, endDatetime, err) ==
    /\ UserById(caller) # {}
    /\ bandId \in BandIds /\ startDatetime \in Times /\ endDatetime \in Times
    /\ err \in DbFailures
    /\ CreateRehearsalRefusal(variant, caller, bandId, startDatetime, endDatetime) = 0
    /\ Cardinality(rehearsals) < MaxRehearsals
    /\ LET rehearsal == [id |-> NewId(rehearsals), bandId |-> bandId,
                         startDatetime |-> startDatetime,
                         endDatetime |-> endDatetime,
                         createdById |-> caller]
           e == errorHandler(err)
       IN  /\ rehearsals' = rehearsals \cup {rehearsal}
           /\ resp' = [op |-> "createRehearsal", caller |-> caller,
                       bandId |-> bandId, startDatetime |-> startDatetime,
                       endDatetime |-> endDatetime,
                       status |-> e.status, success |-> e.success,
                       message |-> e.message, error |-> e.error,
                       rehearsalId |-> NoId]
    /\ UNCHANGED <<variant, users, bands, bandMembers, attendances,
                   notifications, pending>>

----------------------------------------------------------------------------
(* Specifications *)

\* The store of a fresh deployment.
Init ==
    /\ variant \in Variants
    /\ users = {}
    /\ bands = {}
    /\ bandMembers = {}
    /\ rehearsals = {}
    /\ attendances = {}
    /\ notifications = EmptyBag
    /\ pending = EmptyBag
    /\ resp = NoResp

\* A store that already holds a band with a member, of either role, whose
\* membership is INACTIVE: BandMember.status ranges over ACTIVE, INACTIVE,
\* PENDING and the invitation handler reads INACTIVE rows, which the routers
\* mounted by app.ts beside these ones write.
InitSeeded ==
    /\ variant \in Variants
    /\ users = {[id |-> 1, email |-> "a@x", passwordHash |-> Hash("p")],
                [id |-> 2, email |-> "b@x", passwordHash |-> Hash("p")]}
    /\ bands = {[id |-> 1]}
    /\ \E role \in Roles :
         bandMembers = {[id |-> <<1, 1, 1>>, bandId |-> 1, userId |-> 1,
                         role |-> "LEADER", status |-> "ACTIVE"],
                        [id |-> <<1, 2, 1>>, bandId |-> 1, userId |-> 2,
                         role |-> role, status |-> "INACTIVE"]}
    /\ rehearsals = {}
    /\ attendances = {}
    /\ notifications = EmptyBag
    /\ pending = EmptyBag
    /\ resp = NoResp

\* The authentication component: register (two requests can interleave),
\* login, token verification.
NextAuth ==
    \/ \E e \in Emails, p \in RegisterPasswords : RegisterCheck(e, p)
    \/ \E r \in PendingOf("register") : RegisterInsert(r)
    \/ \E e \in Emails, p \in Passwords : Login(e, p)
    \/ \E v \in Variants, h \in Headers, t \in Tokens : authenticate(v, h, t)

SpecAuth == Init /\ [][NextAuth]_vars

\* Bands, memberships and rehearsals, each request served whole.
Next ==
    \/ \E e \in Emails, p \in RegisterPasswords : Register(e, p)
    \/ \E c \in UserIds : CreateBand(c)
    \/ \E c \in UserIds, b \in BandIds : GetBand(c, b)
    \/ \E c \in UserIds, b \in BandIds, e \in Emails, ro \in Roles :
         Invite(c, b, e, ro)
    \/ \E c \in UserIds, b \in BandIds, s \in Times, e \in Times :
         CreateRehearsal(c, b, s, e)
    \/ \E c \in UserIds, b \in BandIds \cup {NoId} : ListRehearsals(c, b)
    \/ \E c \in UserIds, i \in RehearsalIds : GetRehearsal(c, i)

Spec == (Init \/ InitSeeded) /\ [][Next]_vars

\* Band creation and invitations, an invitation being two steps so that
\* two of them can pass the membership lookup before either inserts.
NextInvite ==
    \/ \E e \in Emails, p \in RegisterPasswords : Register(e, p)
    \/ \E c \in UserIds : CreateBand(c)
    \/ \E c \in UserIds, b \in BandIds, e \in Emails, ro \in Roles :
         InviteCheck(c, b, e, ro)
    \/ \E r \in PendingOf("invite") : InviteInsert(r)

SpecInvite == (Init \/ InitSeeded) /\ [][NextInvite]_vars

\* Rehearsals and attendance answers.  The number of rehearsals answered for
\* is bounded apart, since every attendance row multiplies the states by the
\* size of the status vocabulary.
NextAttendance ==
    \/ \E e \in Emails, p \in RegisterPasswords : Register(e, p)
    \/ \E c \in UserIds : CreateBand(c)
    \/ \E c \in UserIds, b \in BandIds, e \in Emails, ro \in Roles :
         Invite(c, b, e, ro)
    \/ \E c \in UserIds, b \in BandIds, s \in Times, e \in Times :
         /\ Cardinality(rehearsals) < MaxAnsweredRehearsals
         /\ CreateRehearsal(c, b, s, e)
    \/ \E c \in UserIds, i \in RehearsalIds, s \in AttendanceInputs :
         UpdateAttendance(c, i, s)

SpecAttendance == (Init \/ InitSeeded) /\ [][NextAttendance]_vars

\* Requests that meet an error: any error handed to the error handler, and
\* a database failure of the user lookup of login and of authenticate.
NextFaults ==
    \/ \E e \in Emails, p \in RegisterPasswords : Register(e, p)
    \/ \E err \in Errors : HandleError(err)
    \/ \E v \in Variants, h \in Headers, t \in Tokens, err \in DbFailures :
         authenticateOnDbFailure(v, h, t, err)
    \/ \E e \in Emails, p \in Passwords, err \in DbFailures :
         LoginOnDbFailure(e, p, err)

SpecFaults == Init /\ [][NextFaults]_vars

\* Rehearsal creation that a database failure can interrupt, and the
\* operations that can follow it.  A complete creation is the first
\* rehearsal of the store; an interrupted one can follow it.
NextInterrupted ==
    \/ \E c \in UserIds : CreateBand(c)
    \/ \E c \in UserIds, b \in BandIds, e \in Emails, ro \in Roles :
         Invite(c, b, e, ro)
    \/ \E c \in UserIds, b \in BandIds, s \in Times, e \in Times :
         /\ Cardinality(rehearsals) < MaxAnsweredRehearsals
         /\ CreateRehearsal(c, b, s, e)
    \/ \E c \in UserIds, b \in BandIds, s \in Times, e \in Times,
          err \in DbFailures :
         CreateRehearsalInterrupted(c, b, s, e, err)
    \/ \E c \in UserIds, i \in RehearsalIds :
         UpdateAttendance(c, i, "MAYBE")

SpecInterrupted == InitSeeded /\ [][NextInterrupted]_vars

\* The application as app.ts assembles it: the routers and the health check.
NextApp ==
    \/ \E e \in Emails, p \in RegisterPasswords : Register(e, p)
    \/ \E e \in Emails, p \in Passwords : Login(e, p)
    \/ \E c \in UserIds : CreateBand(c)
    \/ \E c \in UserIds, b \in BandIds : GetBand(c, b)
    \/ \E c \in UserIds, b \in BandIds, e \in Emails, ro \in Roles :
         Invite(c, b, e, ro)
    \/ \E c \in UserIds, b \in BandIds, s \in Times, e \in Times :
         /\ Cardinality(rehearsals) < MaxAnsweredRehearsals
         /\ CreateRehearsal(c, b, s, e)
    \/ \E c \in UserIds, i \in RehearsalIds : GetRehearsal(c, i)
    \/ \E c \in UserIds, b \in BandIds, now \in Weekdays :
         SuggestedTimesRequest(c, b, now)
    \/ Health

SpecApp == (Init \/ InitSeeded) /\ [][NextApp]_vars

----------------------------------------------------------------------------
(* Properties *)

RowsOf(bandId, userId) ==
    {m \in bandMembers : m.bandId = bandId /\ m.userId = userId}
RehearsalById(id) == {r \in rehearsals : r.id = id}

\* C1: a caller with no membership row in a band is answered 403 by
\* GET /api/bands/:id of that band and by GET /api/rehearsals/:id of each of
\* its rehearsals (404 when the id names no row), and never gets the body.
C1_NonMemberGetsNoBody ==
    /\ (resp.op = "getBand" /\ RowsOf(resp.id, resp.caller) = {}) =>
         /\ resp.body.status = (IF \E b \in bands : b.id = resp.id THEN 403 ELSE 404)
         /\ ~resp.body.success
         /\ resp.body.data = [id |-> NoId, members |-> {}]
    /\ (/\ resp.op = "getRehearsal"
        /\ \A r \in RehearsalById(resp.id) : RowsOf(r.bandId, resp.caller) = {}) =>
         /\ resp.body.status = (IF RehearsalById(resp.id) # {} THEN 403 ELSE 404)
         /\ ~resp.body.success
         /\ resp.body.data = {}

\* C1 witness: a non-member asked for an existing rehearsal and got 403.
C1_Witness ==
    /\ resp.op = "getRehearsal"
    /\ RehearsalById(resp.id) # {}
    /\ \A r \in RehearsalById(resp.id) : RowsOf(r.bandId, resp.caller) = {}
    /\ resp.body.status = 403

\* C2: every rehearsal GET /api/rehearsals returns belongs to a band in
\* which the caller holds an ACTIVE membership, whatever bandId is given.
C2_ListOnlyOwnBands ==
    resp.op = "listRehearsals" =>
      \A r \in resp.data :
        \E m \in RowsOf(r.bandId, resp.caller) : m.status = "ACTIVE"

C4_AlwaysBadRequest ==
    [][(resp'.op = "createRehearsal"
        /\ resp'.startDatetime >= resp'.endDatetime) =>
         /\ resp'.status = 400
         /\ UNCHANGED <<rehearsals, attendances, notifications>>]_vars

\* C4 amended: such a request creates no row and is answered 400, except
\* that the router that checks membership first ("A") answers 403 to a
\* caller without an ACTIVE membership in the band.
C4_InvalidTimesRefused ==
    [][(resp'.op = "createRehearsal"
        /\ resp'.startDatetime >= resp'.endDatetime) =>
         /\ UNCHANGED <<rehearsals, attendances, notifications>>
         /\ resp'.rehearsalId = NoId
         /\ LET outsider ==
                  /\ variant = "A"
                  /\ \A m \in RowsOf(resp'.bandId, resp'.caller) :
                       m.status # "ACTIVE"
            IN  resp'.status = (IF outsider THEN 403 ELSE 400)]_vars

\* C4 witness: a member of the band sent start >= end and got 400.
C4_Witness ==
    /\ resp.op = "createRehearsal"
    /\ resp.startDatetime >= resp.endDatetime
    /\ RowsOf(resp.bandId, resp.caller) # {}
    /\ resp.status = 400

\* C5: every persisted rehearsal starts strictly before it ends.
C5_StartBeforeEnd ==
    \A r \in rehearsals : r.startDatetime < r.endDatetime

\* C5 witness: a rehearsal has just been persisted.
C5_Witness ==
    /\ resp.op = "createRehearsal" /\ resp.status = 201
    /\ RehearsalById(resp.rehearsalId) # {}

\* C6: at most one BandMember row per (band, user), also when two
\* invitations of one user to one band interleave.
C6_OneMembershipPerPair ==
    \A m1 \in bandMembers, m2 \in bandMembers :
      (m1.bandId = m2.bandId /\ m1.userId = m2.userId) => m1 = m2

\* C6 witness: the second of two interleaved invitations reached its insert
\* after the first had inserted, and was refused by the unique constraint.
C6_Witness ==
    /\ resp.op = "invite" /\ resp.phase = "insert" /\ resp.status = 409
    /\ RowsOf(resp.id, resp.userId) # {}

\* C7: at most one RehearsalAttendance row per (rehearsal, user).
C7_OneAttendancePerPair ==
    \A a1 \in attendances, a2 \in attendances :
      (a1.rehearsalId = a2.rehearsalId /\ a1.userId = a2.userId) => a1 = a2

\* C7 witness: a rehearsal with two attendance rows, one of them answered.
C7_Witness ==
    /\ resp.op = "updateAttendance" /\ resp.status = 200
    /\ Cardinality({a \in attendances : a.rehearsalId = resp.id}) = 2
    /\ \E a \in attendances :
         a.rehearsalId = resp.id /\ a.userId = resp.caller
         /\ a.status = resp.newStatus /\ a.status # "PENDING"

\* C8: a register request for an email no user holds is answered 201 and
\* adds exactly the user with that email; one for an email a user holds is
\* answered 409 and leaves the users as they were.
C8_RegisterOnceThenConflict ==
    [][resp'.op = "register" =>
         IF UserByEmail(resp'.email) = {}
         THEN /\ resp'.status = 201
              /\ \E u \in users' : /\ u.email = resp'.email
                                   /\ u.id = resp'.created
                                   /\ users' = users \cup {u}
                                   /\ u \notin users
         ELSE /\ resp'.status = 409
              /\ resp'.created = NoId
              /\ users' = users]_vars

\* C8 witness: a register request for an email already registered was
\* refused.
C8_Witness ==
    /\ resp.op = "register" /\ resp.status = 409
    /\ Cardinality(UserByEmail(resp.email)) = 1

\* C9: a login with an unknown email and a login with a known email and a
\* wrong password get the same response, a 401.
C9_LoginDoesNotEnumerate ==
    \A e1 \in Emails, e2 \in Emails, p1 \in Passwords, p2 \in Passwords :
      (/\ \A u \in users : u.email # e1
       /\ \E u \in users : u.email = e2 /\ u.passwordHash # Hash(p2)) =>
         /\ LoginResponse(e1, p1) = LoginResponse(e2, p2)
         /\ LoginResponse(e1, p1).status = 401

\* C9 witness: a known email with a wrong password was answered 401 while
\* another email is unknown.
C9_Witness ==
    /\ resp.op = "login" /\ resp.body.status = 401
    /\ \E u \in users : u.email = resp.email /\ u.passwordHash # Hash(resp.password)
    /\ \E e \in Emails : \A u \in users : u.email # e

\* C10: authenticate answers 401 and does not call the handler when the
\* header is not a Bearer token, the signature is invalid, the token is
\* expired or its id names no user; the handler runs only with req.user the
\* id of an existing user.
C10_AuthenticateGuards ==
    resp.op = "authenticate" =>
      LET rejected == \/ resp.header # "bearer"
                      \/ ~resp.token.sigValid
                      \/ resp.token.expired
                      \/ \A u \in users : u.id # resp.token.id
      IN  /\ rejected => (resp.result.status = 401 /\ ~resp.result.next)
          /\ resp.result.next =>
               /\ ~rejected
               /\ resp.result.reqUser = resp.token.id
               /\ \E u \in users : u.id = resp.result.reqUser

\* C10 witness: a validly signed, unexpired Bearer token whose id names no
\* user was refused while users exist.
C10_Witness ==
    /\ resp.op = "authenticate" /\ resp.header = "bearer"
    /\ resp.token.sigValid /\ ~resp.token.expired
    /\ users # {} /\ \A u \in users : u.id # resp.token.id
    /\ resp.result.status = 401

\* C11: POST /api/bands/:id/members by a caller who holds no ACTIVE LEADER
\* membership in the band is answered 403 and changes no membership row and
\* no notification row, whatever the email and the role of the request.
C11_NonLeaderInviteRefused ==
    [][(/\ resp'.op = "invite"
        /\ \A m \in RowsOf(resp'.id, resp'.caller) :
             ~(m.role = "LEADER" /\ m.status = "ACTIVE")) =>
         /\ resp'.status = 403
         /\ UNCHANGED <<bandMembers, notifications>>]_vars

\* C11 witness: an ACTIVE plain member of the band invited a registered user
\* and was refused.
C11_Witness ==
    /\ resp.op = "invite" /\ resp.status = 403
    /\ \E m \in RowsOf(resp.id, resp.caller) :
         m.role = "MEMBER" /\ m.status = "ACTIVE"
    /\ \E u \in users : u.email = resp.email

\* C12 as claimed: the membership row an invitation creates has status
\* INVITED or PENDING, not ACTIVE.
C12_InvitedUntilUpdated ==
    (resp.op = "invite" /\ resp.status = 201) =>
      \A m \in RowsOf(resp.id, resp.userId) : m.status \in {"INVITED", "PENDING"}

\* C13: an invitation by an active leader of a user who already has a
\* membership row in the band leaves one row for the pair: an INACTIVE row
\* becomes ACTIVE with the requested role and the answer is a success, any
\* other row is left as it is and the answer is 409.
C13_ExistingMembershipNotDuplicated ==
    [][resp'.op = "invite" =>
       LET targets == IF resp'.phase = "check"
                      THEN {u.id : u \in {x \in users : x.email = resp'.email}}
                      ELSE {resp'.userId}
           existing == UNION {RowsOf(resp'.id, t) : t \in targets}
       IN  (/\ \E m \in RowsOf(resp'.id, resp'.caller) :
                 m.role = "LEADER" /\ m.status = "ACTIVE"
            /\ existing # {}) =>
             /\ \A t \in targets :
                  Cardinality({m \in bandMembers' :
                                 m.bandId = resp'.id /\ m.userId = t}) = 1
             /\ IF \E m \in existing : m.status = "INACTIVE"
                THEN /\ resp'.status = 200 /\ resp'.success
                     /\ bandMembers' = (bandMembers \ existing) \cup
                          {[m EXCEPT !.status = "ACTIVE", !.role = resp'.role] :
                             m \in existing}
                ELSE /\ resp'.status = 409 /\ ~resp'.success
                     /\ bandMembers' = bandMembers]_vars

\* C13 witness: an INACTIVE member was invited again as LEADER and is now an
\* ACTIVE LEADER, the only row of the pair.
C13_Witness ==
    /\ resp.op = "invite" /\ resp.status = 200 /\ resp.role = "LEADER"
    /\ Cardinality(RowsOf(resp.id, resp.userId)) = 1
    /\ \A m \in RowsOf(resp.id, resp.userId) :
         m.status = "ACTIVE" /\ m.role = "LEADER"

\* C14 as claimed: POST /api/rehearsals by a caller without an ACTIVE
\* membership in the band (router "B": without an ACTIVE LEADER membership)
\* is answered 403 and creates no rehearsal, attendance or notification row.
C14_CreateOnlyByActiveMember ==
    [][(/\ resp'.op = "createRehearsal"
        /\ \A m \in RowsOf(resp'.bandId, resp'.caller) :
             ~(m.status = "ACTIVE" /\ (variant = "B" => m.role = "LEADER"))) =>
         /\ resp'.status = 403
         /\ UNCHANGED <<rehearsals, attendances, notifications>>]_vars

\* C15: a successful POST /api/rehearsals adds exactly one unread
\* NEW_REHEARSAL notification, referencing the new rehearsal, for each ACTIVE
\* member of the band other than the creator, and no other notification.
C15_NewRehearsalNotifications ==
    [][(resp'.op = "createRehearsal" /\ resp'.status = 201) =>
         LET expected ==
               {[userId |-> m.userId, type |-> "NEW_REHEARSAL",
                 relatedId |-> resp'.rehearsalId, isRead |-> FALSE] :
                  m \in {k \in bandMembers : /\ k.bandId = resp'.bandId
                                             /\ k.status = "ACTIVE"
                                             /\ k.userId # resp'.caller}}
         IN  \A n \in BagToSet(notifications) \cup BagToSet(notifications')
                        \cup expected :
               CopiesIn(n, notifications') =
                 CopiesIn(n, notifications) + (IF n \in expected THEN 1 ELSE 0)]_vars

\* C15 witness: a rehearsal was created for a band with another ACTIVE
\* member, who holds the notification of it while the creator holds none.
C15_Witness ==
    /\ resp.op = "createRehearsal" /\ resp.status = 201
    /\ \E n \in BagToSet(notifications) :
         /\ n.type = "NEW_REHEARSAL" /\ n.relatedId = resp.rehearsalId
         /\ n.userId # resp.caller
         /\ \E m \in RowsOf(resp.bandId, n.userId) : m.status = "ACTIVE"
    /\ \A n \in BagToSet(notifications) :
         n.type = "NEW_REHEARSAL" => n.userId # resp.caller

\* C16: an attendance update, with a status the router's validator accepts,
\* by a caller who has no attendance row for the rehearsal (the rehearsal
\* does not exist, or the caller joined the band after it was created) is
\* answered 404, and no attendance row and no notification is created or
\* changed.
C16_NoAttendanceRowNotFound ==
    [][(/\ resp'.op = "updateAttendance"
        /\ resp'.newStatus \in (IF variant = "A" THEN AttendanceStatusesA
                                                  ELSE AttendanceStatusesB)
        /\ \A a \in attendances :
             ~(a.rehearsalId = resp'.id /\ a.userId = resp'.caller)) =>
         /\ resp'.status = 404
         /\ UNCHANGED <<attendances, notifications>>]_vars

\* C16 witness: an ACTIVE member of the band that owns an existing
\* rehearsal, without an attendance row for it, answered and got 404.
C16_Witness ==
    /\ resp.op = "updateAttendance" /\ resp.status = 404
    /\ \E r \in RehearsalById(resp.id) :
         \E m \in RowsOf(r.bandId, resp.caller) : m.status = "ACTIVE"
    /\ \A a \in attendances :
         ~(a.rehearsalId = resp.id /\ a.userId = resp.caller)

\* C17: every attendance row (rehearsal R, user U) is matched by a
\* membership row (band of R, U), so an attendance update succeeds only for
\* a caller with a membership row in the band that owns the rehearsal.
C17_AttendanceImpliesMembership ==
    /\ \A a \in attendances :
         \E r \in RehearsalById(a.rehearsalId) : RowsOf(r.bandId, a.userId) # {}
    /\ (resp.op = "updateAttendance" /\ resp.status = 200) =>
         \E r \in RehearsalById(resp.id) : RowsOf(r.bandId, resp.caller) # {}

\* C17 witness: an invited plain member answered for a rehearsal of the band
\* while a registered user outside the band has no attendance row.
C17_Witness ==
    /\ resp.op = "updateAttendance" /\ resp.status = 200
    /\ \E r \in RehearsalById(resp.id) :
         /\ \E m \in RowsOf(r.bandId, resp.caller) : m.role = "MEMBER"
         /\ \E b \in bands : b.id # r.bandId
    /\ \E a \in attendances : a.userId = resp.caller /\ a.status = resp.newStatus

\* C18 as claimed: when an attendance status is set to NOT_ATTENDING /
\* DECLINED, every ACTIVE leader of the owning band other than the caller
\* gets one more ATTENDANCE_UPDATE notification referencing the rehearsal.
C18_EveryOtherLeaderNotified ==
    [][(/\ resp'.op = "updateAttendance" /\ resp'.status = 200
        /\ resp'.newStatus \in {"NOT_ATTENDING", "DECLINED"}) =>
         \A r \in RehearsalById(resp'.id) :
           \A m \in {k \in bandMembers : /\ k.bandId = r.bandId
                                         /\ k.role = "LEADER"
                                         /\ k.status = "ACTIVE"
                                         /\ k.userId # resp'.caller} :
             LET n == [userId |-> m.userId, type |-> "ATTENDANCE_UPDATE",
                       relatedId |-> resp'.id, isRead |-> FALSE]
             IN  CopiesIn(n, notifications') = CopiesIn(n, notifications) + 1]_vars

\* C19 as claimed: GET /api/rehearsals/suggested-times with the id of a band
\* by an ACTIVE member of it is answered 200 with exactly three entries,
\* which depend on the current time only.
C19_ThreeSuggestedTimes ==
    (/\ resp.op = "suggestedTimes"
     /\ \E m \in RowsOf(resp.bandId, resp.caller) : m.status = "ACTIVE") =>
      /\ resp.body.status = 200
      /\ Len(resp.body.data) = 3
      /\ resp.body.data = SuggestedTimes(resp.now)

\* C20 as claimed: every response body has a success field and no field
\* other than success, message, data and error.
C20_ResponseEnvelope ==
    BodyKeys(resp) # {} =>
      /\ "success" \in BodyKeys(resp)
      /\ BodyKeys(resp) \subseteq {"success", "message", "data", "error"}

\* C24: a successful POST /api/bands adds, in one step, the band and exactly
\* one membership row of it, the caller's, with role LEADER and status ACTIVE;
\* no state shows a band without a membership row.
C24_BandCreatedWithLeader ==
    [][(resp'.op = "createBand" /\ resp'.status = 201) =>
         \E b \in bands' \ bands :
           /\ bands' = bands \cup {b}
           /\ b.id = resp'.data.id
           /\ \E m \in bandMembers' \ bandMembers :
                /\ bandMembers' = bandMembers \cup {m}
                /\ m.bandId = b.id /\ m.userId = resp'.caller
                /\ m.role = "LEADER" /\ m.status = "ACTIVE"
           /\ \A k \in bands' : \E m \in bandMembers' : m.bandId = k.id]_vars

\* C24 witness: a second band was created by a user, who leads it.
C24_Witness ==
    /\ resp.op = "createBand" /\ resp.status = 201
    /\ Cardinality(bands) = 2
    /\ Cardinality(RowsOf(resp.data.id, resp.caller)) = 1
    /\ \A m \in RowsOf(resp.data.id, resp.caller) :
         m.role = "LEADER" /\ m.status = "ACTIVE"

C27_BandKeepsActiveLeader ==
    /\ \A b \in bands :
         \E m \in bandMembers :
           m.bandId = b.id /\ m.role = "LEADER" /\ m.status = "ACTIVE"
    /\ (/\ resp.op = "invite"
        /\ IF resp.phase = "check"
           THEN \E u \in users : u.id = resp.caller /\ u.email = resp.email
           ELSE resp.userId = resp.caller
        /\ \E m \in RowsOf(resp.id, resp.caller) :
             m.role = "LEADER" /\ m.status = "ACTIVE") => resp.status = 409

\* C27 witness: the only leader of a band invited their own email as a plain
\* member, was answered 409 and still leads the band.
C27_Witness ==
    /\ resp.op = "invite" /\ resp.phase = "check"
    /\ resp.status = 409 /\ resp.role = "MEMBER"
    /\ \E u \in users : u.id = resp.caller /\ u.email = resp.email
    /\ \A m \in bandMembers :
         (m.bandId = resp.id /\ m.role = "LEADER") => m.userId = resp.caller
    /\ \E m \in RowsOf(resp.id, resp.caller) :
         m.role = "LEADER" /\ m.status = "ACTIVE"

\* C29: for a caller without an ACTIVE LEADER membership in the band, the
\* invitation is answered the same 403 for every target email, registered or
\* not, member of the band or not.
C29_RefusalIndependentOfTarget ==
    \A c \in UserIds, b \in BandIds :
      (\A m \in RowsOf(b, c) : ~(m.role = "LEADER" /\ m.status = "ACTIVE")) =>
        \A e1 \in Emails \cup {"nobody@x"}, e2 \in Emails \cup {"nobody@x"} :
          /\ InviteLookup(c, b, e1) = InviteLookup(c, b, e2)
          /\ InviteLookup(c, b, e1).status = 403

\* C29 witness: a plain member was refused when inviting a member of the
\* band, in a state where a leader's answer does depend on the target.
C29_Witness ==
    /\ resp.op = "invite" /\ resp.status = 403
    /\ \E u \in users : u.email = resp.email /\ RowsOf(resp.id, u.id) # {}
    /\ \E m \in RowsOf(resp.id, resp.caller) : m.role = "MEMBER"
    /\ \E l \in UserIds :
         /\ InviteLookup(l, resp.id, resp.email).status = 409
         /\ InviteLookup(l, resp.id, "nobody@x").status = 404

C30_UpdateFrame ==
    [][(resp'.op = "updateAttendance" /\ resp'.status = 200) =>
         /\ UNCHANGED <<users, bands, bandMembers, rehearsals>>
         /\ \E a \in attendances :
              /\ a.rehearsalId = resp'.id /\ a.userId = resp'.caller
              /\ attendances' = (attendances \ {a})
                                  \cup {[a EXCEPT !.status = resp'.newStatus]}
         /\ \A n \in BagToSet(notifications) \cup BagToSet(notifications') :
              \/ CopiesIn(n, notifications') = CopiesIn(n, notifications)
              \/ /\ CopiesIn(n, notifications') = CopiesIn(n, notifications) + 1
                 /\ n.type = "ATTENDANCE_UPDATE" /\ n.relatedId = resp'.id
                 /\ \E r \in RehearsalById(resp'.id) :
                      \E m \in RowsOf(r.bandId, n.userId) : m.role = "LEADER"]_vars

\* C30 witness: a member declined a rehearsal that has another attendance
\* row, which kept its status, and a leader was notified.
C30_Witness ==
    /\ resp.op = "updateAttendance" /\ resp.status = 200
    /\ resp.newStatus \in {"NOT_ATTENDING", "DECLINED"}
    /\ \E a \in attendances :
         a.rehearsalId = resp.id /\ a.userId # resp.caller /\ a.status = "PENDING"
    /\ \E n \in BagToSet(notifications) :
         n.type = "ATTENDANCE_UPDATE" /\ n.relatedId = resp.id

\* C28: when two register requests for one email have both passed the lookup
\* of an existing user, the first insert is answered 201 and the second is
\* answered 409 by the error handler's mapping of the unique-constraint
\* error, not 500; no two users hold one email.
C28_ConcurrentRegister ==
    [][(resp'.op = "register" /\ resp'.phase = "insert") =>
         /\ IF UserByEmail(resp'.email) # {}
            THEN /\ resp'.status = 409 /\ resp'.error = "Conflict"
                 /\ resp'.message = "A record with this data already exists"
                 /\ users' = users
            ELSE /\ resp'.status = 201
                 /\ Cardinality({u \in users' : u.email = resp'.email}) = 1
         /\ \A u1 \in users', u2 \in users' : u1.email = u2.email => u1 = u2]_vars

\* C28 witness: the second of two interleaved register requests for one
\* email reached its insert and was answered 409, one user holding the email.
C28_Witness ==
    /\ resp.op = "register" /\ resp.phase = "insert" /\ resp.status = 409
    /\ resp.message = "A record with this data already exists"
    /\ Cardinality({u \in users : u.email = resp.email}) = 1

\* C21 as claimed: the error handler answers code P2002 with 409, code P2025
\* with 404 and every other error with the generic 500, whose body carries
\* nothing of the error's message.
C21_OnlyConstraintCodesMapped ==
    resp.op = "error" =>
      IF resp.err.prisma /\ resp.err.code = "P2002" THEN resp.body.status = 409
      ELSE IF resp.err.prisma /\ resp.err.code = "P2025" THEN resp.body.status = 404
      ELSE /\ resp.body.status = 500
           /\ resp.body.message # resp.err.message

\* C21 amended: P2002 is answered 409 and P2025 404; then an error named
\* JsonWebTokenError or TokenExpiredError is answered 401; then an error
\* carrying a statusCode is answered with that status, its own message and
\* its name; every remaining error is answered the generic 500, with no
\* stack and nothing of the error's message.
C21_ErrorMapping ==
    resp.op = "error" =>
      LET err == resp.err
          body == resp.body
      IN  /\ ~body.success
          /\ DOMAIN body = {"status", "success", "message", "error"}
          /\ IF err.prisma /\ err.code = "P2002"
             THEN body.status = 409 /\ body.error = "Conflict"
             ELSE IF err.prisma /\ err.code = "P2025"
             THEN body.status = 404 /\ body.error = "Not Found"
             ELSE IF err.name \in {"JsonWebTokenError", "TokenExpiredError"}
             THEN body.status = 401 /\ body.error = "Unauthorized"
             ELSE IF err.statusCode # 0
             THEN /\ body.status = err.statusCode
                  /\ body.message = err.message /\ body.error = err.name
             ELSE /\ body.status = 500
                  /\ body.message = "Internal server error"
                  /\ body.message # err.message
                  /\ body.error = "ServerError"

\* C21 witness: a Prisma error with a code other than P2002 and P2025, and
\* no statusCode, was answered the generic 500.
C21_Witness ==
    /\ resp.op = "error" /\ resp.err.prisma /\ resp.err.code = "P2024"
    /\ resp.err.statusCode = 0
    /\ resp.body.status = 500 /\ resp.body.message = "Internal server error"

\* C22 as claimed: a request that meets a database failure, the failure of
\* the user lookup of authenticate included, is answered 500.
C22_DbFailureIsServerError ==
    /\ (resp.op = "authenticateFault" /\ resp.result.failed) =>
         resp.result.status = 500
    /\ resp.op = "loginFault" => resp.body.status = 500


\* C23: rehearsal creation is not atomic.  A creation that a database failure
\* stops after the rehearsal insert is answered 500 and leaves exactly one
\* new rehearsal with no attendance row and no notification; and no step
\* gives an attendance row or a NEW_REHEARSAL notification to a rehearsal
\* that was already stored, so the missing rows are never created later.
C23_InterruptedCreationLeavesOrphan ==
    [][/\ (resp'.op = "createRehearsal" /\ resp'.status = 500) =>
            /\ Cardinality(rehearsals' \ rehearsals) = 1
            /\ rehearsals \subseteq rehearsals'
            /\ \A r \in rehearsals' \ rehearsals :
                 /\ {a \in attendances' : a.rehearsalId = r.id} = {}
                 /\ {n \in BagToSet(notifications') :
                        /\ n.type \in {"NEW_REHEARSAL", "ATTENDANCE_UPDATE"}
                        /\ n.relatedId = r.id} = {}
            /\ attendances' = attendances
            /\ notifications' = notifications
       /\ \A r \in rehearsals :
            /\ {a.id : a \in {x \in attendances' : x.rehearsalId = r.id}}
                 \subseteq {a.id : a \in attendances}
            /\ \A n \in BagToSet(notifications') :
                 (n.type = "NEW_REHEARSAL" /\ n.relatedId = r.id) =>
                   CopiesIn(n, notifications') <= CopiesIn(n, notifications)]_vars

\* C23 witness: a rehearsal of a band with two ACTIVE members is stored with
\* no attendance row and no notification, and a member's later attendance
\* answer for it was refused 404.
C23_Witness ==
    /\ resp.op = "updateAttendance" /\ resp.status = 404
    /\ \E r \in rehearsals :
         /\ r.id = resp.id
         /\ {a \in attendances : a.rehearsalId = r.id} = {}
         /\ {n \in BagToSet(notifications) :
                /\ n.type \in {"NEW_REHEARSAL", "ATTENDANCE_UPDATE"}
                /\ n.relatedId = r.id} = {}
         /\ Cardinality({m \in bandMembers : m.bandId = r.bandId
                                              /\ m.status = "ACTIVE"}) = 2
         /\ \E m \in bandMembers : /\ m.bandId = r.bandId /\ m.status = "ACTIVE"
                                   /\ m.userId = resp.caller

====
